---- MODULE Spec2Model ----
(***************************************************************************)
(* Frame-resource ring of ShapesApp                                        *)
(* (Week4-4-CylinderUsingFrameResources.cpp).                              *)
(*                                                                         *)
(* One CPU thread runs Initialize and then the frame loop Update; Draw.    *)
(* One GPU stream consumes the command queue in FIFO order: an executed    *)
(* command list reads the constant buffers of the frame resource it was    *)
(* recorded against, a Signal sets the fence's completed value.            *)
(*                                                                         *)
(* A world matrix is modelled as a 2x2 matrix <<m11, m12, m21, m22>>, so   *)
(* that XMMatrixTranspose is not the identity.                             *)
(***************************************************************************)
EXTENDS Integers, Sequences, FiniteSets, TLC

(* ------------------------------ constants ------------------------------ *)

\* const int gNumFrameResources = 3;
gNumFrameResources == 3

\* Number of render items BuildRenderItems creates in the bounded model.
NumObjects == 2

\* Largest fence value the CPU hands out (caps the number of frames).
MaxFence == 8

\* Largest number of transform changes (mark_dirty) in one run.
MaxMarks == 2

\* Largest object count the descriptor-heap construction is run with.
MaxObjCount == 5

\* Largest number of render items BuildRenderItems is run with.
MaxRitems == 3

FrameIndices == 0 .. (gNumFrameResources - 1)
RenderItems == 0 .. (NumObjects - 1)

\* MathHelper::Identity4x4(), the default RenderItem::World.
Identity4x4 == <<1, 0, 0, 1>>

\* The transforms a render item can be given; ShearA and ShearB are each
\* other's transpose.
ShearA == <<1, 1, 0, 1>>
ShearB == <<1, 0, 1, 1>>
Worlds == {Identity4x4, ShearA, ShearB}

\* The transform BuildRenderItems stores in item e (XMStoreFloat4x4 of its
\* rotation and translation); consecutive items get different transforms.
BuiltWorld(e) == IF e % 2 = 0 THEN Identity4x4 ELSE ShearA

\* Content of an upload buffer element that was never written.
ZeroMatrix == <<0, 0, 0, 0>>
UnwrittenContents == {ZeroMatrix, ShearA}

\* Content of a pass record that was never written.
NoPass == [EyePosW |-> <<0, 0>>, TotalTime |-> -1]

\* Slot of a command list that reads no frame resource (initialization);
\* also mCurrFrameResource = nullptr.
NoSlot == -1

\* The orbit angles OnMouseMove can leave in mTheta.
Thetas == {0, 1}

VARIABLES
    pc,                       \* position of the CPU thread
    mCurrFrameResourceIndex,  \* ShapesApp::mCurrFrameResourceIndex
    mCurrFrameResource,       \* ShapesApp::mCurrFrameResource (slot pointed at)
    mTheta,                   \* ShapesApp::mTheta
    mEyePos,                  \* ShapesApp::mEyePos
    mCurrentFence,            \* D3DApp::mCurrentFence
    fenceCompleted,           \* mFence->GetCompletedValue()
    cmdQueue,                 \* mCommandQueue: submitted, unfinished GPU work
    Fence,                    \* FrameResource::Fence of each frame resource
    World,                    \* RenderItem::World of each render item
    NumFramesDirty,           \* RenderItem::NumFramesDirty of each render item
    ObjectCB,                 \* FrameResource::ObjectCB of each frame resource
    PassCB,                   \* FrameResource::PassCB of each frame resource
    gtTotalTime,              \* GameTimer::TotalTime, one tick per frame
    marks,                    \* history: number of transform changes so far
    updatesSinceMark,         \* history: UpdateObjectCBs runs since the last mark
    overlapMark,              \* history: last mark hit a partly propagated item
    staleWorlds,              \* history: transforms superseded by the last marks
    frameTargets,             \* history: fence values Draw handed out
    slotHistory,              \* history: frame resource index of each frame
    objCount,                 \* heap construction: mOpaqueRitems.size()
    numDescriptors,           \* heap construction: cbvHeapDesc.NumDescriptors
    mPassCbvOffset,           \* ShapesApp::mPassCbvOffset
    hpc,                      \* heap construction: position
    frameIndex,               \* heap construction: loop variable frameIndex
    objI,                     \* heap construction: loop variable i
    cbvViews,                 \* heap construction: views created so far
    bound,                    \* heap construction: last descriptor table bound
    bpc,                      \* scene construction: position
    objIndex,                 \* BuildRenderItems: local objIndex
    mAllRitems,               \* ShapesApp::mAllRitems
    mOpaqueRitems,            \* ShapesApp::mOpaqueRitems (positions in mAllRitems)
    frObjectCount             \* FrameResource: objectCount of each ObjectCB

ringVars == <<pc, mCurrFrameResourceIndex, mCurrFrameResource, mTheta, mEyePos,
              mCurrentFence, fenceCompleted,
              cmdQueue, Fence, World, NumFramesDirty, ObjectCB, PassCB,
              gtTotalTime, marks, updatesSinceMark, overlapMark, staleWorlds,
              frameTargets, slotHistory>>
heapVars == <<objCount, numDescriptors, mPassCbvOffset, hpc, frameIndex, objI,
              cbvViews, bound>>
buildVars == <<bpc, objIndex, mAllRitems, mOpaqueRitems, frObjectCount>>
vars == <<ringVars, heapVars, buildVars>>

(* ------------------------------- helpers ------------------------------- *)

\* XMMatrixTranspose
XMMatrixTranspose(m) == <<m[1], m[3], m[2], m[4]>>

\* objConstants.World as UpdateObjectCBs stores it.
ObjectConstants(world) == XMMatrixTranspose(world)

\* UploadBuffer::CopyData(elementIndex, data)
CopyData(cb, elementIndex, data) == [cb EXCEPT ![elementIndex] = data]

\* Faulty variant: objIndex is never incremented.
ObjCBIndex_AllZero == [e \in RenderItems |-> 0]

\* ritem->ObjCBIndex = objIndex++ in creation order.
ObjCBIndex == [e \in RenderItems |-> e]

\* Faulty variant: the ring advances by two.
NextFrameResourceIndex_Skip(i) == (i + 2) % gNumFrameResources

\* mCurrFrameResourceIndex = (mCurrFrameResourceIndex + 1) % gNumFrameResources
NextFrameResourceIndex(i) == (i + 1) % gNumFrameResources

\* Faulty variant: the test that precedes the wait never asks for a wait.
MustWait_Never(fence, completed) == FALSE

\* Faulty variant: the zero test is missing and the comparison is <=.
MustWait_AtOrBelow(fence, completed) == completed <= fence

\* Fence != 0 && mFence->GetCompletedValue() < Fence
MustWait(fence, completed) == fence # 0 /\ completed < fence

\* Faulty variant: the event is set one fence value early.
EventSignaled_Early(fence, completed) == completed >= fence - 1

\* The event of SetEventOnCompletion(fence, ...) is set once the fence's
\* completed value has reached fence.
EventSignaled(fence, completed) == completed >= fence

\* Faulty variant: a mark leaves the counter of an already dirty item alone.
MarkedNumFramesDirty_KeepIfDirty(n) == IF n > 0 THEN n ELSE gNumFrameResources

\* Faulty variant: a mark adds the ring depth to the counter.
MarkedNumFramesDirty_Add(n) == n + gNumFrameResources

\* Faulty variant: a mark sets the counter one below the ring depth.
MarkedNumFramesDirty_OneShort(n) == gNumFrameResources - 1

\* NumFramesDirty = gNumFrameResources, whatever the previous value n.
MarkedNumFramesDirty(n) == gNumFrameResources

\* Faulty variant: the last dirty frame is skipped.
IsDirty_OffByOne(n) == n > 1

\* Faulty variant: every item is rewritten and decremented on every frame.
IsDirty_Always(n) == TRUE

\* if (e->NumFramesDirty > 0)
IsDirty(n) == n > 0

\* Faulty variant: the counter is cleared by the first write.
DecrementDirty_ToZero(n) == 0

\* e->NumFramesDirty--
DecrementDirty(n) == n - 1

\* Faulty variant: the fence value is advanced by two.
AdvanceFence_Twice(f) == f + 2

\* ++mCurrentFence
AdvanceFence(f) == f + 1

ExecItem(slot) == [kind |-> "Exec", slot |-> slot, value |-> 0]
SignalItem(v) == [kind |-> "Signal", slot |-> NoSlot, value |-> v]

\* mCommandQueue->ExecuteCommandLists for a list recorded against slot.
ExecuteCommandLists(q, slot) == Append(q, ExecItem(slot))

\* Faulty variant: the Signal carries a value that was not handed out yet.
Signal_Ahead(q, v) == Append(q, SignalItem(v + 1))

\* mCommandQueue->Signal(mFence.Get(), v)
Signal(q, v) == Append(q, SignalItem(v))

\* The loop of UpdateObjectCBs over mAllRitems, from item e on.
RECURSIVE ObjectCBLoop(_, _)
ObjectCBLoop(cb, e) ==
    IF e = NumObjects THEN cb
    ELSE ObjectCBLoop(
            IF IsDirty(NumFramesDirty[e])
            THEN CopyData(cb, ObjCBIndex[e], ObjectConstants(World[e]))
            ELSE cb,
            e + 1)

\* NumFramesDirty of every item after the loop of UpdateObjectCBs.
DirtyAfterLoop ==
    [e \in RenderItems |->
        IF IsDirty(NumFramesDirty[e]) THEN DecrementDirty(NumFramesDirty[e])
        ELSE NumFramesDirty[e]]

\* mMainPassCB as UpdateMainPassCB fills it.
MainPassCB == [EyePosW |-> mEyePos, TotalTime |-> gtTotalTime]

\* Faulty variant: the pass record is rewritten only when the camera moved.
WritePassCB_IfMoved(old, new) == IF old.EyePosW = new.EyePosW THEN old ELSE new

\* currPassCB->CopyData(0, mMainPassCB): the record replaces the old one.
WritePassCB(old, new) == new

\* UpdateCamera: spherical to Cartesian coordinates of the eye.
EyeOf(theta) == IF theta = 0 THEN <<1, 0>> ELSE <<0, 1>>

\* Faulty variant: the frame resource pointer is always the first slot.
FrameResourceAt_First(i) == 0

\* mFrameResources[i].get()
FrameResourceAt(i) == i

\* Faulty variant: the Signal is enqueued before the frame's command list.
SubmitFrame_SignalFirst(q, slot, v) == ExecuteCommandLists(Signal(q, v), slot)

\* Faulty variant: the frame's command list is submitted without a Signal.
SubmitFrame_NoSignal(q, slot, v) == ExecuteCommandLists(q, slot)

\* Draw: ExecuteCommandLists of the frame, then Signal(mFence, mCurrentFence).
SubmitFrame(q, slot, v) == Signal(ExecuteCommandLists(q, slot), v)

\* Faulty variant: the flush returns without waiting.
FlushCommandQueueDone_NoWait == TRUE

\* FlushCommandQueue has returned: the GPU has finished everything that was
\* submitted and the fence has reached the target of every frame resource.
FlushCommandQueueDone ==
    /\ cmdQueue = <<>>
    /\ \A s \in FrameIndices : fenceCompleted >= Fence[s]

(* ------------------------------ frame loop ----------------------------- *)

RingInit ==
    /\ pc = "Initialize"
    /\ mCurrFrameResourceIndex = 0
    /\ mCurrFrameResource = NoSlot
    /\ mTheta = 0
    /\ mEyePos = <<0, 0>>
    /\ mCurrentFence = 0
    /\ fenceCompleted = 0
    /\ cmdQueue = <<>>
    /\ Fence = [s \in FrameIndices |-> 0]
    /\ World = [e \in RenderItems |-> BuiltWorld(e)]
    /\ NumFramesDirty = [e \in RenderItems |-> gNumFrameResources]
    /\ \E g \in UnwrittenContents :
          ObjectCB = [s \in FrameIndices |-> [k \in RenderItems |-> g]]
    /\ PassCB = [s \in FrameIndices |-> NoPass]
    /\ gtTotalTime = 0
    /\ marks = 0
    /\ updatesSinceMark = [e \in RenderItems |-> 0]
    /\ overlapMark = [e \in RenderItems |-> FALSE]
    /\ staleWorlds = [e \in RenderItems |-> {}]
    /\ frameTargets = {}
    /\ slotHistory = <<>>

HeapIdle ==
    /\ objCount = NumObjects
    /\ numDescriptors = 0
    /\ mPassCbvOffset = 0
    /\ hpc = "Idle"
    /\ frameIndex = 0
    /\ objI = 0
    /\ cbvViews = {}
    /\ bound = <<>>

\* The scene construction is not running.
BuildIdle ==
    /\ bpc = "Idle"
    /\ objIndex = 0
    /\ mAllRitems = <<>>
    /\ mOpaqueRitems = <<>>
    /\ frObjectCount = 0

Init == RingInit /\ HeapIdle /\ BuildIdle

\* ShapesApp::Initialize up to the call of FlushCommandQueue.
Initialize ==
    /\ pc = "Initialize"
    /\ cmdQueue' = ExecuteCommandLists(cmdQueue, NoSlot)
    /\ pc' = "InitializeFlush"
    /\ UNCHANGED <<mCurrFrameResourceIndex, mCurrentFence, fenceCompleted, Fence, World,
                   NumFramesDirty, ObjectCB, PassCB, gtTotalTime, marks,
                   updatesSinceMark, overlapMark, staleWorlds, frameTargets,
                   slotHistory>>
    /\ UNCHANGED <<mCurrFrameResource, mTheta, mEyePos>>
    /\ UNCHANGED heapVars
    /\ UNCHANGED buildVars

\* The wait of FlushCommandQueue in Initialize returns.
InitializeFlush ==
    /\ pc = "InitializeFlush"
    /\ FlushCommandQueueDone
    /\ pc' = "Update"
    /\ UNCHANGED <<mCurrFrameResourceIndex, mCurrentFence, fenceCompleted,
                   cmdQueue, Fence, World, NumFramesDirty, ObjectCB, PassCB,
                   gtTotalTime, marks, updatesSinceMark, overlapMark,
                   staleWorlds, frameTargets, slotHistory>>
    /\ UNCHANGED <<mCurrFrameResource, mTheta, mEyePos>>
    /\ UNCHANGED heapVars
    /\ UNCHANGED buildVars

\* A transform change between frames, with the bookkeeping the comment on
\* RenderItem::NumFramesDirty prescribes.
MarkDirty(e, w) ==
    /\ pc = "Update"
    /\ marks < MaxMarks
    /\ World' = [World EXCEPT ![e] = w]
    /\ NumFramesDirty' =
          [NumFramesDirty EXCEPT ![e] = MarkedNumFramesDirty(NumFramesDirty[e])]
    /\ marks' = marks + 1
    /\ updatesSinceMark' = [updatesSinceMark EXCEPT ![e] = 0]
    /\ overlapMark' =
          [overlapMark EXCEPT
              ![e] = updatesSinceMark[e] > 0
                     /\ updatesSinceMark[e] < gNumFrameResources]
    /\ staleWorlds' =
          [staleWorlds EXCEPT
              ![e] = ((IF updatesSinceMark[e] < gNumFrameResources
                       THEN @ ELSE {}) \cup {World[e]}) \ {w}]
    /\ UNCHANGED <<pc, mCurrFrameResourceIndex, mCurrentFence, fenceCompleted,
                   cmdQueue, Fence, ObjectCB, PassCB, gtTotalTime,
                   frameTargets, slotHistory>>
    /\ UNCHANGED <<mCurrFrameResource, mTheta, mEyePos>>
    /\ UNCHANGED heapVars
    /\ UNCHANGED buildVars

\* Update, from its start to the test that precedes the wait.
UpdateSelect ==
    /\ pc = "Update"
    /\ mCurrentFence < MaxFence
    /\ mCurrFrameResourceIndex' = NextFrameResourceIndex(mCurrFrameResourceIndex)
    /\ mCurrFrameResource' = FrameResourceAt(mCurrFrameResourceIndex')
    /\ mEyePos' = EyeOf(mTheta)
    /\ pc' = IF MustWait(Fence[mCurrFrameResource'], fenceCompleted)
             THEN "Wait" ELSE "UpdateObjectCBs"
    /\ gtTotalTime' = gtTotalTime + 1
    /\ slotHistory' = Append(slotHistory, mCurrFrameResourceIndex')
    /\ UNCHANGED <<mCurrentFence, fenceCompleted, cmdQueue, Fence, World,
                   NumFramesDirty, ObjectCB, PassCB, marks, updatesSinceMark,
                   overlapMark, staleWorlds, frameTargets, mTheta>>
    /\ UNCHANGED heapVars
    /\ UNCHANGED buildVars

\* WaitForSingleObject(eventHandle, INFINITE) returns.
UpdateWait ==
    /\ pc = "Wait"
    /\ EventSignaled(Fence[mCurrFrameResource], fenceCompleted)
    /\ pc' = "UpdateObjectCBs"
    /\ UNCHANGED <<mCurrFrameResourceIndex, mCurrentFence, fenceCompleted,
                   cmdQueue, Fence, World, NumFramesDirty, ObjectCB, PassCB,
                   gtTotalTime, marks, updatesSinceMark, overlapMark,
                   staleWorlds, frameTargets, slotHistory>>
    /\ UNCHANGED <<mCurrFrameResource, mTheta, mEyePos>>
    /\ UNCHANGED heapVars
    /\ UNCHANGED buildVars

UpdateObjectCBs ==
    /\ pc = "UpdateObjectCBs"
    /\ ObjectCB' =
          [ObjectCB EXCEPT
              ![mCurrFrameResource] = ObjectCBLoop(@, 0)]
    /\ NumFramesDirty' = DirtyAfterLoop
    /\ updatesSinceMark' =
          [e \in RenderItems |->
              IF updatesSinceMark[e] < gNumFrameResources
              THEN updatesSinceMark[e] + 1 ELSE updatesSinceMark[e]]
    /\ pc' = "UpdateMainPassCB"
    /\ UNCHANGED <<mCurrFrameResourceIndex, mCurrentFence, fenceCompleted,
                   cmdQueue, Fence, World, PassCB, gtTotalTime, marks,
                   overlapMark, staleWorlds, frameTargets, slotHistory>>
    /\ UNCHANGED <<mCurrFrameResource, mTheta, mEyePos>>
    /\ UNCHANGED heapVars
    /\ UNCHANGED buildVars

UpdateMainPassCB ==
    /\ pc = "UpdateMainPassCB"
    /\ PassCB' =
          [PassCB EXCEPT ![mCurrFrameResource] = WritePassCB(@, MainPassCB)]
    /\ pc' = "Draw"
    /\ UNCHANGED <<mCurrFrameResourceIndex, mCurrentFence, fenceCompleted,
                   cmdQueue, Fence, World, NumFramesDirty, ObjectCB,
                   gtTotalTime, marks, updatesSinceMark, overlapMark,
                   staleWorlds, frameTargets, slotHistory>>
    /\ UNCHANGED <<mCurrFrameResource, mTheta, mEyePos>>
    /\ UNCHANGED heapVars
    /\ UNCHANGED buildVars

Draw ==
    /\ pc = "Draw"
    /\ mCurrentFence' = AdvanceFence(mCurrentFence)
    /\ Fence' = [Fence EXCEPT ![mCurrFrameResource] = mCurrentFence']
    /\ cmdQueue' = SubmitFrame(cmdQueue, mCurrFrameResourceIndex, mCurrentFence')
    /\ frameTargets' = frameTargets \cup {mCurrentFence'}
    /\ pc' = "Update"
    /\ UNCHANGED <<mCurrFrameResourceIndex, fenceCompleted, World,
                   NumFramesDirty, ObjectCB, PassCB, gtTotalTime, marks,
                   updatesSinceMark, overlapMark, staleWorlds, slotHistory>>
    /\ UNCHANGED <<mCurrFrameResource, mTheta, mEyePos>>
    /\ UNCHANGED heapVars
    /\ UNCHANGED buildVars

\* ~ShapesApp, entered between two frames: the call of FlushCommandQueue.
Destructor ==
    /\ pc = "Update"
    /\ pc' = "DestructorFlush"
    /\ UNCHANGED <<mCurrFrameResourceIndex, mCurrentFence, fenceCompleted,
                   cmdQueue, Fence, World, NumFramesDirty, ObjectCB, PassCB,
                   gtTotalTime, marks, updatesSinceMark, overlapMark,
                   staleWorlds, frameTargets, slotHistory>>
    /\ UNCHANGED <<mCurrFrameResource, mTheta, mEyePos>>
    /\ UNCHANGED heapVars
    /\ UNCHANGED buildVars

\* FlushCommandQueue returns in ~ShapesApp and the members are released.
DestructorRelease ==
    /\ pc = "DestructorFlush"
    /\ FlushCommandQueueDone
    /\ pc' = "Released"
    /\ UNCHANGED <<mCurrFrameResourceIndex, mCurrentFence, fenceCompleted,
                   cmdQueue, Fence, World, NumFramesDirty, ObjectCB, PassCB,
                   gtTotalTime, marks, updatesSinceMark, overlapMark,
                   staleWorlds, frameTargets, slotHistory>>
    /\ UNCHANGED <<mCurrFrameResource, mTheta, mEyePos>>
    /\ UNCHANGED heapVars
    /\ UNCHANGED buildVars

\* OnMouseMove with the left button down, between two frames.
OnMouseMove(theta) ==
    /\ pc = "Update"
    /\ theta # mTheta
    /\ mTheta' = theta
    /\ UNCHANGED <<pc, mCurrFrameResourceIndex, mCurrentFence, fenceCompleted,
                   cmdQueue, Fence, World, NumFramesDirty, ObjectCB, PassCB,
                   gtTotalTime, marks, updatesSinceMark, overlapMark,
                   staleWorlds, frameTargets, slotHistory>>
    /\ UNCHANGED <<mCurrFrameResource, mEyePos>>
    /\ UNCHANGED heapVars
    /\ UNCHANGED buildVars

\* The GPU finishes the command list at the head of the queue.
GpuExecute ==
    /\ cmdQueue # <<>>
    /\ Head(cmdQueue).kind = "Exec"
    /\ cmdQueue' = Tail(cmdQueue)
    /\ UNCHANGED <<pc, mCurrFrameResourceIndex, mCurrentFence, fenceCompleted,
                   Fence, World, NumFramesDirty, ObjectCB, PassCB, gtTotalTime,
                   marks, updatesSinceMark, overlapMark, staleWorlds,
                   frameTargets, slotHistory>>
    /\ UNCHANGED <<mCurrFrameResource, mTheta, mEyePos>>
    /\ UNCHANGED heapVars
    /\ UNCHANGED buildVars

\* The GPU reaches the Signal at the head of the queue.
GpuSignal ==
    /\ cmdQueue # <<>>
    /\ Head(cmdQueue).kind = "Signal"
    /\ fenceCompleted' = Head(cmdQueue).value
    /\ cmdQueue' = Tail(cmdQueue)
    /\ UNCHANGED <<pc, mCurrFrameResourceIndex, mCurrentFence, Fence, World,
                   NumFramesDirty, ObjectCB, PassCB, gtTotalTime, marks,
                   updatesSinceMark, overlapMark, staleWorlds, frameTargets,
                   slotHistory>>
    /\ UNCHANGED <<mCurrFrameResource, mTheta, mEyePos>>
    /\ UNCHANGED heapVars
    /\ UNCHANGED buildVars

Next ==
    \/ Initialize
    \/ InitializeFlush
    \/ \E e \in RenderItems, w \in Worlds : MarkDirty(e, w)
    \/ UpdateSelect
    \/ UpdateWait
    \/ UpdateObjectCBs
    \/ UpdateMainPassCB
    \/ Draw
    \/ Destructor
    \/ DestructorRelease
    \/ GpuExecute
    \/ GpuSignal

Spec == Init /\ [][Next]_vars

\* The frame loop with camera input and without transform changes: the pass
\* record does not depend on the render items' transforms.
PassNext ==
    \/ Initialize
    \/ InitializeFlush
    \/ \E theta \in Thetas : OnMouseMove(theta)
    \/ UpdateSelect
    \/ UpdateWait
    \/ UpdateObjectCBs
    \/ UpdateMainPassCB
    \/ Draw
    \/ GpuExecute
    \/ GpuSignal

PassSpec == Init /\ [][PassNext]_vars

\* The frame loop with camera input when the CPU thread keeps running and
\* the GPU completes every command list and Signal it is given.
FairSpec ==
    /\ PassSpec
    /\ WF_vars(Initialize)
    /\ WF_vars(InitializeFlush)
    /\ WF_vars(UpdateSelect)
    /\ WF_vars(UpdateWait)
    /\ WF_vars(UpdateObjectCBs)
    /\ WF_vars(UpdateMainPassCB)
    /\ WF_vars(Draw)
    /\ WF_vars(GpuExecute)
    /\ WF_vars(GpuSignal)

(* --------------------------- ring properties --------------------------- *)

PostWait == {"UpdateObjectCBs", "UpdateMainPassCB", "Draw"}
Writing == {"UpdateObjectCBs", "UpdateMainPassCB"}

\* Submitted command lists the GPU has not finished that read slot s.
UnfinishedReaders(s) ==
    {i \in DOMAIN cmdQueue : cmdQueue[i].kind = "Exec" /\ cmdQueue[i].slot = s}

\* Fence targets of submitted frames the GPU has not reached.
UnfinishedFrames == {v \in frameTargets : v > fenceCompleted}

\* The matrix a shader reads from a stored element: the constant buffer is
\* read with column-major packing, which undoes the transpose of the store.
ShaderWorld(element) == <<element[1], element[3], element[2], element[4]>>

\* The copy of item e in frame resource s, as the GPU sees it.
SlotCopy(s, e) == ShaderWorld(ObjectCB[s][ObjCBIndex[e]])

\* C1: whenever the CPU is writing the object table or the pass record of
\* the current frame resource, the GPU has finished every command list
\* submitted earlier against that frame resource.
C1_NoWriteWhileGpuReads ==
    pc \in Writing => UnfinishedReaders(mCurrFrameResourceIndex) = {}

\* C1 witness: the CPU writes a frame resource that was submitted before,
\* while command lists of other frame resources are still unfinished.
C1_Witness ==
    /\ pc = "UpdateObjectCBs"
    /\ Fence[mCurrFrameResourceIndex] # 0
    /\ \E s \in FrameIndices : UnfinishedReaders(s) # {}

\* C2: Update is past its wait only if the fence's completed value has
\* reached the target of the selected frame resource; while the GPU has not
\* signalled that target, Update stays in the wait.
C2_BackpressureBound ==
    /\ pc \in PostWait => fenceCompleted >= Fence[mCurrFrameResourceIndex]
    /\ (pc = "Wait" /\ fenceCompleted < Fence[mCurrFrameResourceIndex])
          => ~ENABLED UpdateWait

\* C2 witness: Update is blocked on a target whose Signal is still behind
\* other work in the queue (the GPU needs several more steps).
C2_Witness ==
    /\ pc = "Wait"
    /\ fenceCompleted < Fence[mCurrFrameResourceIndex]
    /\ Len(cmdQueue) >= 4

\* C3 as stated: the number of submitted frames whose target the GPU has
\* not reached is at most N - 1 in every reachable state.
C3_RunAheadBelowDepth ==
    Cardinality(UnfinishedFrames) <= gNumFrameResources - 1

\* C3 amended: that number is at most N in every reachable state, and at
\* most N - 1 from the return of Update's wait until Draw submits.
C3_RunAheadAmended ==
    /\ Cardinality(UnfinishedFrames) <= gNumFrameResources
    /\ pc \in PostWait =>
          Cardinality(UnfinishedFrames) <= gNumFrameResources - 1

\* C3 witness: right after Draw, N submitted frames are unfinished.
C3_Witness ==
    /\ pc = "Update"
    /\ Cardinality(UnfinishedFrames) = gNumFrameResources

\* C4: once an item has been through N runs of UpdateObjectCBs since its
\* last mark (its creation counts as one), the copy in every frame resource
\* is the item's transform as of that mark.
C4_PropagationComplete ==
    \A e \in RenderItems :
        updatesSinceMark[e] >= gNumFrameResources =>
            \A s \in FrameIndices : SlotCopy(s, e) = World[e]

\* C4 witness: an item was marked with a new transform after its first
\* propagation had completed, and N frames have run since.
C4_Witness ==
    \E e \in RenderItems :
        /\ updatesSinceMark[e] = gNumFrameResources
        /\ marks > 0
        /\ ~overlapMark[e]
        /\ World[e] # BuiltWorld(e)

\* C5: when an item is marked again after k runs of UpdateObjectCBs,
\* 0 < k < N, and N more runs follow, every copy is the final transform and
\* none is an earlier one.
C5_NoUnderPropagation ==
    \A e \in RenderItems :
        (overlapMark[e] /\ updatesSinceMark[e] >= gNumFrameResources) =>
            \A s \in FrameIndices :
                /\ SlotCopy(s, e) = World[e]
                /\ SlotCopy(s, e) \notin staleWorlds[e]

\* C5 witness: the overlapping mark superseded two different earlier
\* transforms and N frames have run since.
C5_Witness ==
    \E e \in RenderItems :
        /\ overlapMark[e]
        /\ updatesSinceMark[e] = gNumFrameResources
        /\ Cardinality(staleWorlds[e]) = 2

\* C6: a mark sets the counter to exactly N whatever it was, and every
\* counter stays within 0 .. N.
C6_CounterRange ==
    /\ \A e \in RenderItems : NumFramesDirty[e] \in 0 .. gNumFrameResources
    /\ [][/\ \A e \in RenderItems :
                NumFramesDirty'[e] \in 0 .. gNumFrameResources
          /\ \A e \in RenderItems, w \in Worlds :
                MarkDirty(e, w) => NumFramesDirty'[e] = gNumFrameResources]_vars

\* C6 witness: an item was marked while its counter was between 1 and N - 1.
C6_Witness ==
    \E e \in RenderItems :
        overlapMark[e] /\ NumFramesDirty[e] = gNumFrameResources

\* A step of UpdateObjectCBs.
CommitStep == pc = "UpdateObjectCBs" /\ pc' = "UpdateMainPassCB"

\* C7: one run of UpdateObjectCBs on frame resource s writes the transform
\* of exactly the items whose counter is positive into s's copy, decrements
\* those counters by one, and leaves every other item's copy and counter.
C7_CommitFrame ==
    [][CommitStep =>
        \A e \in RenderItems :
            IF NumFramesDirty[e] > 0
            THEN /\ ShaderWorld(ObjectCB'[mCurrFrameResourceIndex][ObjCBIndex[e]])
                       = World[e]
                 /\ NumFramesDirty'[e] = NumFramesDirty[e] - 1
            ELSE /\ ObjectCB'[mCurrFrameResourceIndex][ObjCBIndex[e]]
                       = ObjectCB[mCurrFrameResourceIndex][ObjCBIndex[e]]
                 /\ NumFramesDirty'[e] = 0]_vars

\* C7 witness: UpdateObjectCBs has just run on a frame in which one item
\* was clean (never marked, more than N frames old) and another was dirty.
C7_Witness ==
    /\ pc = "UpdateMainPassCB"
    /\ Len(slotHistory) > gNumFrameResources
    /\ marks = 1
    /\ \E e1, e2 \in RenderItems :
          /\ NumFramesDirty[e1] = 0
          /\ NumFramesDirty[e2] = gNumFrameResources - 1

\* C10: every Update selects (current + 1) mod N, so any N consecutive
\* frames use every frame resource once and a frame resource is reused
\* exactly N frames after its last use.
C10_CyclicOrder ==
    LET h == slotHistory
        n == Len(slotHistory)
    IN  /\ n >= 1 => h[1] = 1 % gNumFrameResources
        /\ \A i \in 1 .. (n - 1) : h[i + 1] = (h[i] + 1) % gNumFrameResources
        /\ \A i \in 1 .. (n - gNumFrameResources + 1) :
              {h[j] : j \in i .. (i + gNumFrameResources - 1)} = FrameIndices
        /\ \A i, j \in 1 .. n :
              (i < j /\ h[i] = h[j] /\ \A k \in (i + 1) .. (j - 1) : h[k] # h[j])
                  => j - i = gNumFrameResources

\* C10 witness: the ring has gone round twice.
C10_Witness == Len(slotHistory) >= 2 * gNumFrameResources

(* ------------------- ring properties: targets and drain ---------------- *)

\* Frame resources that no Update has selected yet.
NeverSelected ==
    {s \in FrameIndices : \A i \in DOMAIN slotHistory : slotHistory[i] # s}

\* C11: every frame resource keeps target 0 until its first use, and none
\* of the first N calls of Update waits, whatever the GPU has completed.
C11_FirstUseNeverBlocks ==
    /\ \A s \in NeverSelected : Fence[s] = 0
    /\ Len(slotHistory) <= gNumFrameResources => pc # "Wait"

\* C11 witness: the N-th Update is past its test without waiting while the
\* GPU has completed none of the N - 1 frames submitted so far.
C11_Witness ==
    /\ Len(slotHistory) = gNumFrameResources
    /\ pc = "UpdateObjectCBs"
    /\ fenceCompleted = 0
    /\ Cardinality(UnfinishedFrames) = gNumFrameResources - 1

\* The fence value of the first Signal behind position i of the queue
\* (0 when none follows).
SignalBehind(i) ==
    LET js == {j \in DOMAIN cmdQueue : j > i /\ cmdQueue[j].kind = "Signal"}
    IN  IF js = {} THEN 0
        ELSE cmdQueue[CHOOSE j \in js : \A k \in js : j <= k].value

\* Positions of the queue that hold a frame's command list.
FrameLists ==
    {i \in DOMAIN cmdQueue :
        cmdQueue[i].kind = "Exec" /\ cmdQueue[i].slot # NoSlot}

\* C12: Draw stores the newly advanced fence value in the current frame
\* resource and enqueues the Signal for that value right behind the frame's
\* command list, so once the fence has reached a frame resource's target
\* no command list of that frame or of an earlier one is unfinished.
C12_SignalFollowsFrame ==
    /\ (pc = "Update" /\ frameTargets # {}) =>
          Fence[mCurrFrameResourceIndex] = mCurrentFence
    /\ \A i \in FrameLists :
          /\ i + 1 \in DOMAIN cmdQueue
          /\ cmdQueue[i + 1].kind = "Signal"
          /\ cmdQueue[i + 1].value \in frameTargets
          /\ cmdQueue[i + 1].value > fenceCompleted
    /\ \A s \in FrameIndices :
          (Fence[s] # 0 /\ fenceCompleted >= Fence[s]) =>
              \A i \in FrameLists : SignalBehind(i) > Fence[s]

\* C12 witness: the fence stands exactly at one frame resource's target
\* while later frames are still in the queue.
C12_Witness ==
    /\ pc = "Update"
    /\ FrameLists # {}
    /\ \E s \in FrameIndices : Fence[s] # 0 /\ fenceCompleted = Fence[s]

\* C13: when the GPU completes everything it is given, every wait of Update
\* returns and every frame that was started is submitted.
C13_WaitsReturn ==
    /\ (pc = "Wait") ~> (pc = "UpdateObjectCBs")
    /\ (pc \in PostWait \cup {"Wait"}) ~> (pc = "Update")

\* C13 witness: Update is blocked while all of the last N frames are
\* unfinished.
C13_Witness ==
    /\ pc = "Wait"
    /\ ~EventSignaled(Fence[mCurrFrameResource], fenceCompleted)
    /\ Cardinality(UnfinishedFrames) = gNumFrameResources

\* C14: the destructor releases the frame resources only when the fence has
\* reached the target of every frame resource and no command list that
\* reads one is unfinished.
C14_FullDrain ==
    pc = "Released" =>
        /\ \A s \in FrameIndices : fenceCompleted >= Fence[s]
        /\ \A s \in FrameIndices : UnfinishedReaders(s) = {}

\* C14 witness: the destructor has released after every frame resource was
\* submitted at least twice.
C14_Witness ==
    /\ pc = "Released"
    /\ mCurrentFence >= 2 * gNumFrameResources
    /\ \A s \in FrameIndices : Fence[s] # 0

\* C17: the fence's completed value never decreases and never exceeds
\* mCurrentFence.
C17_CompletedMonotone ==
    /\ fenceCompleted <= mCurrentFence
    /\ [][/\ fenceCompleted' >= fenceCompleted
          /\ fenceCompleted' <= mCurrentFence']_vars

\* C17 witness: the GPU has caught up with the CPU after the ring went
\* round.
C17_Witness ==
    /\ fenceCompleted = mCurrentFence
    /\ mCurrentFence > gNumFrameResources

\* A step of Draw.
DrawStep == pc = "Draw" /\ pc' = "Update"

C19_OtherItemsUntouched ==
    [][/\ \A e \in RenderItems, w \in Worlds :
            MarkDirty(e, w) =>
                /\ ObjectCB' = ObjectCB
                /\ \A x \in RenderItems \ {e} :
                      /\ NumFramesDirty'[x] = NumFramesDirty[x]
                      /\ World'[x] = World[x]
       /\ CommitStep =>
            /\ World' = World
            /\ \A x \in RenderItems :
                  NumFramesDirty[x] = 0 =>
                      /\ NumFramesDirty'[x] = 0
                      /\ \A s \in FrameIndices :
                            ObjectCB'[s][ObjCBIndex[x]]
                                = ObjectCB[s][ObjCBIndex[x]]]_vars

\* C19 witness: one item was marked once, after the ring had gone round,
\* and has been propagated by N commits while another item stayed clean.
C19_Witness ==
    /\ marks = 1
    /\ Len(slotHistory) >= 2 * gNumFrameResources
    /\ \E e, x \in RenderItems :
          /\ x # e
          /\ World[e] # BuiltWorld(e)
          /\ updatesSinceMark[e] = gNumFrameResources
          /\ NumFramesDirty[e] = 0
          /\ World[x] = BuiltWorld(x)
          /\ \A s \in FrameIndices : SlotCopy(s, x) = World[x]

\* C20: no step changes the object table, the pass record or the target of
\* a frame resource other than the current one.
C20_SlotsIsolated ==
    [][\A s \in FrameIndices :
          s # mCurrFrameResourceIndex' =>
              /\ ObjectCB'[s] = ObjectCB[s]
              /\ PassCB'[s] = PassCB[s]
              /\ Fence'[s] = Fence[s]]_vars

\* C20 witness: after the ring went round, every frame resource holds the
\* pass record and the target of its own last frame.
C20_Witness ==
    /\ pc = "Update"
    /\ mCurrentFence > gNumFrameResources
    /\ \A s \in FrameIndices : PassCB[s].TotalTime = Fence[s]

(* ------------------ ring properties: object table data ----------------- *)

\* C22: UpdateObjectCBs leaves in the current frame resource, for every
\* item, rewritten or not, the transform the item has at that Update;
\* neither that copy nor the transform changes before Draw submits the
\* frame, and the copy does not change while a command list that reads the
\* frame resource is unfinished.
C22_GpuReadsUpdateTimeData ==
    [][/\ CommitStep =>
            \A e \in RenderItems :
                ShaderWorld(ObjectCB'[mCurrFrameResource][ObjCBIndex[e]])
                    = World[e]
       /\ pc \in {"UpdateMainPassCB", "Draw"} =>
            (ObjectCB' = ObjectCB /\ World' = World)
       /\ \A s \in FrameIndices :
            UnfinishedReaders(s) # {} => ObjectCB'[s] = ObjectCB[s]]_vars

\* C22 witness: a frame is about to be submitted in which one item was
\* rewritten with a changed transform and another, clean for more than a
\* round of the ring, was not rewritten.
C22_Witness ==
    /\ pc = "Draw"
    /\ Len(slotHistory) > gNumFrameResources
    /\ marks = 1
    /\ \E e, x \in RenderItems :
          /\ x # e
          /\ World[e] # BuiltWorld(e)
          /\ NumFramesDirty[e] \in 1 .. (gNumFrameResources - 1)
          /\ NumFramesDirty[x] = 0
          /\ SlotCopy(mCurrFrameResource, e) = World[e]
          /\ SlotCopy(mCurrFrameResource, x) = World[x]

\* The CPU is between two frames: no frame resource is being written.
BetweenFrames == pc \notin ({"Wait"} \cup PostWait)

\* The frame resources the next c calls of Update select.
NextSlots(c) ==
    {(mCurrFrameResourceIndex + k) % gNumFrameResources : k \in 1 .. c}

\* The frame resources whose copy of item e is not its current transform.
StaleSlots(e) == {s \in FrameIndices : SlotCopy(s, e) # World[e]}

\* C23: between frames, every frame resource other than the next c in ring
\* order holds the item's current transform, c being the item's counter:
\* at most c copies are outdated, none when c is 0.
C23_CounterBoundsStaleSlots ==
    BetweenFrames =>
        \A e \in RenderItems :
            /\ StaleSlots(e) \subseteq NextSlots(NumFramesDirty[e])
            /\ Cardinality(StaleSlots(e)) <= NumFramesDirty[e]
            /\ NumFramesDirty[e] = 0 => StaleSlots(e) = {}

\* C23 witness: an item with a changed transform has counter 1 and exactly
\* one outdated copy, in the frame resource the next Update selects.
C23_Witness ==
    /\ pc = "Update"
    /\ \E e \in RenderItems :
          /\ World[e] # BuiltWorld(e)
          /\ NumFramesDirty[e] = 1
          /\ StaleSlots(e)
                = {NextFrameResourceIndex(mCurrFrameResourceIndex)}

(* ---------------- ring properties: allocators and targets -------------- *)

\* C24: when Draw resets the command allocator of the current frame
\* resource, no command list recorded with that allocator is unfinished,
\* and the list Draw then submits is recorded with that same allocator.
C24_AllocatorResetWhenIdle ==
    [][DrawStep =>
        /\ UnfinishedReaders(mCurrFrameResource) = {}
        /\ cmdQueue'[Len(cmdQueue') - 1] = ExecItem(mCurrFrameResource)]_vars

\* C24 witness: Draw is about to reset an allocator that was used before,
\* while the lists of every other frame resource are still unfinished.
C24_Witness ==
    /\ pc = "Draw"
    /\ Fence[mCurrFrameResource] # 0
    /\ \A s \in FrameIndices \ {mCurrFrameResource} :
          UnfinishedReaders(s) # {}

\* The queue holds a Signal for fence value v.
SignalQueued(v) == \E i \in DOMAIN cmdQueue : cmdQueue[i] = SignalItem(v)

\* C25: every nonzero target of a frame resource was handed out by Draw
\* and, until the fence reaches it, its Signal is in the queue; so the
\* value Update waits for always has a Signal enqueued.
C25_WaitedValueSignalled ==
    /\ \A s \in FrameIndices :
          Fence[s] # 0 =>
              /\ Fence[s] \in frameTargets
              /\ fenceCompleted < Fence[s] => SignalQueued(Fence[s])
    /\ pc = "Wait" =>
          /\ Fence[mCurrFrameResource] # 0
          /\ \/ SignalQueued(Fence[mCurrFrameResource])
             \/ fenceCompleted >= Fence[mCurrFrameResource]

\* C25 witness: Update is blocked and the Signal it waits for is the next
\* thing the GPU reaches.
C25_Witness ==
    /\ pc = "Wait"
    /\ fenceCompleted < Fence[mCurrFrameResource]
    /\ Head(cmdQueue) = SignalItem(Fence[mCurrFrameResource])

\* C27: the submitted frames the GPU has not reached are the last
\* mCurrentFence - completed ones; there are at most N of them, and at most
\* N - 1 from the return of Update's wait until Draw submits.
C27_PipelineDepth ==
    /\ Cardinality(UnfinishedFrames) = mCurrentFence - fenceCompleted
    /\ mCurrentFence - fenceCompleted <= gNumFrameResources
    /\ pc \in PostWait =>
          mCurrentFence - fenceCompleted <= gNumFrameResources - 1

\* C27 witness: the CPU is recording on a reused frame resource while the
\* N - 1 frames before it are all unfinished.
C27_Witness ==
    /\ pc = "Draw"
    /\ Fence[mCurrFrameResource] # 0
    /\ mCurrentFence - fenceCompleted = gNumFrameResources - 1

\* Frame resource s was submitted by some Draw.
Submitted(s) == \E i \in 1 .. mCurrentFence : slotHistory[i] = s

\* C28: every target is at most mCurrentFence, nonzero targets of different
\* frame resources differ, a target is 0 exactly when the frame resource
\* was never submitted, and right after Draw the frame resource just
\* submitted holds the largest target.
C28_TargetsWellFormed ==
    /\ \A s \in FrameIndices : Fence[s] \in 0 .. mCurrentFence
    /\ \A s1, s2 \in FrameIndices :
          (s1 # s2 /\ Fence[s1] # 0) => Fence[s1] # Fence[s2]
    /\ \A s \in FrameIndices : Fence[s] = 0 <=> ~Submitted(s)
    /\ (pc = "Update" /\ mCurrentFence > 0) =>
          \A s \in FrameIndices : Fence[s] <= Fence[mCurrFrameResource]

\* C28 witness: right after the Draw of frame N - 1, one frame resource has
\* never been submitted and the others hold different targets.
C28_Witness ==
    /\ pc = "Update"
    /\ mCurrentFence = gNumFrameResources - 1
    /\ Cardinality({s \in FrameIndices : Fence[s] = 0}) = 1
    /\ Fence[mCurrFrameResource] = mCurrentFence

(* -------------------- ring properties: slot states --------------------- *)

\* The state of frame resource s in the ring's state machine, read off the
\* program's variables: IN_USE from the Update that selects it to the Draw
\* that submits it, AWAITING_GPU once it carries a target, FREE before.
StateOf(s, current, position, target) ==
    IF s = current /\ position \in ({"Wait"} \cup PostWait) THEN "IN_USE"
    ELSE IF target # 0 THEN "AWAITING_GPU"
    ELSE "FREE"

\* The state of frame resource s before and after a step.
SlotState(s) == StateOf(s, mCurrFrameResource, pc, Fence[s])
SlotStateNext(s) == StateOf(s, mCurrFrameResource', pc', Fence'[s])

\* A step of Update that selects the next frame resource.
SelectStep == pc = "Update" /\ pc' \in {"Wait", "UpdateObjectCBs"}

\* C26: at most one frame resource is IN_USE; a frame resource changes
\* state only from FREE or AWAITING_GPU to IN_USE, when Update selects it,
\* and from IN_USE to AWAITING_GPU, when Draw submits it; and Draw submits
\* the frame resource the preceding Update selected.
C26_SlotStateMachine ==
    /\ \A s \in FrameIndices : SlotState(s) = "FREE"
    /\ [][/\ Cardinality({s \in FrameIndices : SlotStateNext(s) = "IN_USE"}) <= 1
          /\ \A s \in FrameIndices :
                SlotStateNext(s) # SlotState(s) =>
                    \/ /\ SelectStep
                       /\ s = (mCurrFrameResourceIndex + 1) % gNumFrameResources
                       /\ SlotState(s) \in {"FREE", "AWAITING_GPU"}
                       /\ SlotStateNext(s) = "IN_USE"
                    \/ /\ DrawStep
                       /\ SlotState(s) = "IN_USE"
                       /\ SlotStateNext(s) = "AWAITING_GPU"
          /\ SelectStep =>
                SlotStateNext((mCurrFrameResourceIndex + 1)
                                  % gNumFrameResources) = "IN_USE"
          /\ DrawStep =>
                /\ SlotState(slotHistory[Len(slotHistory)]) = "IN_USE"
                /\ Fence'[slotHistory[Len(slotHistory)]] = mCurrentFence'
                /\ cmdQueue'[Len(cmdQueue') - 1]
                      = ExecItem(slotHistory[Len(slotHistory)])]_vars

\* C26 witness: during the second frame one frame resource is FREE, one is
\* IN_USE and one is AWAITING_GPU.
C26_Witness ==
    \E s1, s2, s3 \in FrameIndices :
        /\ SlotState(s1) = "FREE"
        /\ SlotState(s2) = "IN_USE"
        /\ SlotState(s3) = "AWAITING_GPU"

(* ----------------------- pass record properties ------------------------ *)

\* The frame resource the previous frame used.
PrevFrameResourceIndex ==
    (mCurrFrameResourceIndex + gNumFrameResources - 1) % gNumFrameResources

\* C16: after every Update the current frame resource's pass record holds
\* the camera and time inputs of that Update, changed or not.
C16_PassRecordCurrent ==
    pc = "Draw" =>
        PassCB[mCurrFrameResourceIndex] =
            [EyePosW |-> EyeOf(mTheta), TotalTime |-> gtTotalTime]

\* C16 witness: a frame resource is rewritten on reuse although the camera
\* has not moved since the previous frame.
C16_Witness ==
    /\ pc = "Draw"
    /\ Len(slotHistory) > gNumFrameResources
    /\ PassCB[PrevFrameResourceIndex].EyePosW
          = PassCB[mCurrFrameResourceIndex].EyePosW
    /\ PassCB[mCurrFrameResourceIndex].TotalTime
          = PassCB[PrevFrameResourceIndex].TotalTime + 1

(* ------------------------- descriptor heap layout ---------------------- *)

\* UINT numDescriptors = (objCount + 1) * gNumFrameResources;
NumDescriptors(n) == (n + 1) * gNumFrameResources

\* Faulty variant: the pass descriptors start right after one frame's objects.
PassCbvOffset_OneFrame(n) == n

\* mPassCbvOffset = objCount * gNumFrameResources;
PassCbvOffset(n) == n * gNumFrameResources

\* Faulty variant: the stride between frames is the ring depth.
ObjHeapIndex_RingStride(f, n, i) == f * gNumFrameResources + i

\* int heapIndex = frameIndex * objCount + i;
ObjHeapIndex(f, n, i) == f * n + i

\* int heapIndex = mPassCbvOffset + frameIndex;
PassHeapIndex(offset, f) == offset + f

\* UINT ObjCBIndex = -1;  A UINT is written as its two's-complement
\* residue: -1 stands for 0xFFFFFFFF, and sums of small residues are exact
\* modulo 2^32.
DefaultObjCBIndex == -1

\* Faulty variant: the offset of the current frame resource is left out.
CbvIndex_NoFrame(cur, n, objCBIndex) == objCBIndex

\* UINT cbvIndex = mCurrFrameResourceIndex * mOpaqueRitems.size() + ObjCBIndex;
CbvIndex(cur, n, objCBIndex) == cur * n + objCBIndex

\* int passCbvIndex = mPassCbvOffset + mCurrFrameResourceIndex;
PassCbvIndex(offset, cur) == offset + cur

ObjView(h, f, i) == [heapIndex |-> h, kind |-> "obj", frame |-> f, elem |-> i]
PassView(h, f) == [heapIndex |-> h, kind |-> "pass", frame |-> f, elem |-> 0]

\* The heap is laid out for any object count, with the ring not yet started.
HeapInit ==
    /\ RingInit
    /\ BuildIdle
    /\ objCount \in 0 .. MaxObjCount
    /\ numDescriptors = 0
    /\ mPassCbvOffset = 0
    /\ hpc = "BuildDescriptorHeaps"
    /\ frameIndex = 0
    /\ objI = 0
    /\ cbvViews = {}
    /\ bound = <<>>

BuildDescriptorHeaps ==
    /\ hpc = "BuildDescriptorHeaps"
    /\ numDescriptors' = NumDescriptors(objCount)
    /\ mPassCbvOffset' = PassCbvOffset(objCount)
    /\ hpc' = IF objCount = 0 THEN "PassCbv" ELSE "ObjCbv"
    /\ UNCHANGED <<objCount, frameIndex, objI, cbvViews, bound>>
    /\ UNCHANGED ringVars
    /\ UNCHANGED buildVars

\* One iteration of the inner loop of BuildConstantBufferViews.
BuildObjCbv ==
    /\ hpc = "ObjCbv"
    /\ cbvViews' = cbvViews \cup
          {ObjView(ObjHeapIndex(frameIndex, objCount, objI), frameIndex, objI)}
    /\ IF objI + 1 < objCount
       THEN /\ objI' = objI + 1
            /\ UNCHANGED <<frameIndex, hpc>>
       ELSE /\ objI' = 0
            /\ IF frameIndex + 1 < gNumFrameResources
               THEN frameIndex' = frameIndex + 1 /\ UNCHANGED hpc
               ELSE frameIndex' = 0 /\ hpc' = "PassCbv"
    /\ UNCHANGED <<objCount, numDescriptors, mPassCbvOffset, bound>>
    /\ UNCHANGED ringVars
    /\ UNCHANGED buildVars

\* One iteration of the pass loop of BuildConstantBufferViews.
BuildPassCbv ==
    /\ hpc = "PassCbv"
    /\ cbvViews' = cbvViews \cup
          {PassView(PassHeapIndex(mPassCbvOffset, frameIndex), frameIndex)}
    /\ IF frameIndex + 1 < gNumFrameResources
       THEN frameIndex' = frameIndex + 1 /\ UNCHANGED hpc
       ELSE frameIndex' = 0 /\ hpc' = "Built"
    /\ UNCHANGED <<objCount, numDescriptors, mPassCbvOffset, objI, bound>>
    /\ UNCHANGED ringVars
    /\ UNCHANGED buildVars

\* The ObjCBIndex values BuildRenderItems hands out for objCount items.
ObjIndices == 0 .. (objCount - 1)

\* The ObjCBIndex values a render item handed to DrawRenderItems can carry:
\* the ones handed out, the default of an item that was never given one,
\* and the first index past the table.
ItemIndices == ObjIndices \cup {DefaultObjCBIndex, objCount}

\* Draw and DrawRenderItems bind the pass table of frame resource cur and
\* the object table of the item whose ObjCBIndex is k.  DrawRenderItems
\* tests nothing about k before it offsets the handle.
BindTables(cur, k) ==
    /\ hpc = "Built"
    /\ bound' = [cur |-> cur, item |-> k,
                 pass |-> PassCbvIndex(mPassCbvOffset, cur),
                 obj |-> CbvIndex(cur, objCount, k)]
    /\ UNCHANGED <<objCount, numDescriptors, mPassCbvOffset, hpc, frameIndex,
                   objI, cbvViews>>
    /\ UNCHANGED ringVars
    /\ UNCHANGED buildVars

HeapNext ==
    \/ BuildDescriptorHeaps
    \/ BuildObjCbv
    \/ BuildPassCbv
    \/ \E cur \in FrameIndices, k \in ItemIndices : BindTables(cur, k)

HeapSpec == HeapInit /\ [][HeapNext]_vars

(* --------------------------- layout properties ------------------------- *)

ObjViews == {v \in cbvViews : v.kind = "obj"}
PassViews == {v \in cbvViews : v.kind = "pass"}

\* C8: the object binding index of (slot, object) is the same for two pairs
\* exactly when the pairs are the same, for the index BuildConstantBufferViews
\* creates a view at and for the index DrawRenderItems binds.
C8_NoAliasing ==
    /\ \A s1, s2 \in FrameIndices, o1, o2 \in ObjIndices :
          /\ (ObjHeapIndex(s1, objCount, o1) = ObjHeapIndex(s2, objCount, o2))
                <=> (s1 = s2 /\ o1 = o2)
          /\ (CbvIndex(s1, objCount, o1) = CbvIndex(s2, objCount, o2))
                <=> (s1 = s2 /\ o1 = o2)
    /\ \A v1, v2 \in ObjViews : v1.heapIndex = v2.heapIndex => v1 = v2

\* C8 witness: the views of several objects in every frame resource exist
\* and a draw has bound one of them.
C8_Witness ==
    /\ hpc = "Built"
    /\ objCount = MaxObjCount
    /\ Cardinality(ObjViews) = objCount * gNumFrameResources
    /\ bound # <<>>
    /\ bound.item \in ObjIndices

\* C9: object indices lie in [0, objCount * N), pass indices in
\* [objCount * N, (objCount + 1) * N), no pass index is an object index, and
\* every index is below the heap size (objCount + 1) * N.
C9_DisjointRanges ==
    /\ \A s \in FrameIndices, o \in ObjIndices :
          /\ ObjHeapIndex(s, objCount, o) \in 0 .. (objCount * gNumFrameResources - 1)
          /\ CbvIndex(s, objCount, o) \in 0 .. (objCount * gNumFrameResources - 1)
    /\ \A s \in FrameIndices :
          /\ PassHeapIndex(PassCbvOffset(objCount), s) \in
                (objCount * gNumFrameResources) ..
                    ((objCount + 1) * gNumFrameResources - 1)
          /\ PassCbvIndex(PassCbvOffset(objCount), s) \in
                (objCount * gNumFrameResources) ..
                    ((objCount + 1) * gNumFrameResources - 1)
    /\ NumDescriptors(objCount) = (objCount + 1) * gNumFrameResources
    /\ \A v \in ObjViews, p \in PassViews : v.heapIndex # p.heapIndex
    /\ hpc # "BuildDescriptorHeaps" =>
          /\ \A v \in cbvViews : v.heapIndex \in 0 .. (numDescriptors - 1)
          /\ \A p \in PassViews : p.heapIndex >= mPassCbvOffset
          /\ \A v \in ObjViews : v.heapIndex < mPassCbvOffset
    /\ bound # <<>> =>
          /\ bound.item \in ObjIndices => bound.obj \in 0 .. (mPassCbvOffset - 1)
          /\ bound.pass \in mPassCbvOffset .. (numDescriptors - 1)

\* C9 witness: the whole heap is built, object and pass views alike, and a
\* draw has bound the last pass descriptor.
C9_Witness ==
    /\ hpc = "Built"
    /\ objCount >= 2
    /\ Cardinality(cbvViews) = (objCount + 1) * gNumFrameResources
    /\ bound # <<>>
    /\ bound.item \in ObjIndices
    /\ bound.pass = numDescriptors - 1

\* The object descriptors of frame resource f.
SlotRange(f) == (f * objCount) .. (f * objCount + objCount - 1)

\* C15: an item whose object index is outside the table (the default -1
\* included) is never bound: every binding DrawRenderItems makes is for an
\* index inside the table and lands in the current frame resource's range.
C15_OutOfBoundsRejected ==
    bound # <<>> =>
        /\ bound.item \in ObjIndices
        /\ bound.obj \in SlotRange(bound.cur)

\* C15 witness: the default index drawn from frame resource 1 binds the last object
\* descriptor of frame resource 0.
C15_Witness ==
    /\ bound # <<>>
    /\ objCount >= 2
    /\ bound.item = DefaultObjCBIndex
    /\ bound.cur = 1
    /\ bound.obj \in SlotRange(0)

\* The views BuildConstantBufferViews created at heap index h.
ViewsAt(h) == {v \in cbvViews : v.heapIndex = h}

\* C21: for a frame on frame resource s, the pass table is bound at
\* mPassCbvOffset + s, where the one view is the view of s's pass buffer,
\* and an item's object table at s * objCount + ObjCBIndex, where the one
\* view is the view of element ObjCBIndex of s's own object buffer.
C21_BindsOwnDescriptors ==
    (hpc = "Built" /\ bound # <<>>) =>
        /\ bound.pass = mPassCbvOffset + bound.cur
        /\ ViewsAt(bound.pass) = {PassView(bound.pass, bound.cur)}
        /\ bound.item \in ObjIndices =>
              /\ bound.obj = bound.cur * objCount + bound.item
              /\ ViewsAt(bound.obj)
                    = {ObjView(bound.obj, bound.cur, bound.item)}

\* C21 witness: a draw on the last frame resource has bound the last item
\* of a table of several items.
C21_Witness ==
    /\ hpc = "Built"
    /\ bound # <<>>
    /\ objCount >= 3
    /\ bound.cur = gNumFrameResources - 1
    /\ bound.item = objCount - 1
    /\ bound.obj = mPassCbvOffset - 1

(* --------------------------- scene construction ------------------------ *)

\* A RenderItem as its default member initializers leave it.
DefaultRenderItem ==
    [World |-> Identity4x4,
     NumFramesDirty |-> gNumFrameResources,
     ObjCBIndex |-> DefaultObjCBIndex]

\* XMStoreFloat4x4(&ritem->World, world)
SetWorld(ritem, w) == [ritem EXCEPT !.World = w]

\* Faulty variant: the item is pushed without its index being assigned.
SetObjCBIndex_Forgotten(ritem, i) == ritem

\* ritem->ObjCBIndex = objIndex++ (the value stored)
SetObjCBIndex(ritem, i) == [ritem EXCEPT !.ObjCBIndex = i]

\* Faulty variant: the first render item is left out of the opaque list.
OpaqueRitems_SkipFirst(all) == [i \in 1 .. (Len(all) - 1) |-> i + 1]

\* for (auto& e : mAllRitems) mOpaqueRitems.push_back(e.get());
OpaqueRitems(all) == [i \in 1 .. Len(all) |-> i]

\* The scene is built for any number of render items up to MaxRitems.
BuildInit ==
    /\ RingInit
    /\ objCount = 0
    /\ numDescriptors = 0
    /\ mPassCbvOffset = 0
    /\ hpc = "Idle"
    /\ frameIndex = 0
    /\ objI = 0
    /\ cbvViews = {}
    /\ bound = <<>>
    /\ bpc = "BuildRenderItems"
    /\ objIndex = 0
    /\ mAllRitems = <<>>
    /\ mOpaqueRitems = <<>>
    /\ frObjectCount = 0

\* BuildRenderItems creates one render item with transform w and pushes it.
CreateRenderItem(w) ==
    /\ bpc = "BuildRenderItems"
    /\ Len(mAllRitems) < MaxRitems
    /\ mAllRitems' =
          Append(mAllRitems,
                 SetObjCBIndex(SetWorld(DefaultRenderItem, w), objIndex))
    /\ objIndex' = objIndex + 1
    /\ UNCHANGED <<bpc, mOpaqueRitems, frObjectCount>>
    /\ UNCHANGED heapVars
    /\ UNCHANGED ringVars

\* The end of BuildRenderItems: all the render items are opaque.
FillOpaqueRitems ==
    /\ bpc = "BuildRenderItems"
    /\ mOpaqueRitems' = OpaqueRitems(mAllRitems)
    /\ objCount' = Len(mOpaqueRitems')
    /\ bpc' = "BuildFrameResources"
    /\ UNCHANGED <<objIndex, mAllRitems, frObjectCount>>
    /\ UNCHANGED <<numDescriptors, mPassCbvOffset, hpc, frameIndex, objI,
                   cbvViews, bound>>
    /\ UNCHANGED ringVars

\* Every frame resource gets an ObjectCB of mAllRitems.size() elements; the
\* descriptor heap is built next.
BuildFrameResources ==
    /\ bpc = "BuildFrameResources"
    /\ frObjectCount' = Len(mAllRitems)
    /\ bpc' = "Built"
    /\ hpc' = "BuildDescriptorHeaps"
    /\ UNCHANGED <<objIndex, mAllRitems, mOpaqueRitems>>
    /\ UNCHANGED <<objCount, numDescriptors, mPassCbvOffset, frameIndex, objI,
                   cbvViews, bound>>
    /\ UNCHANGED ringVars

\* Draw calls DrawRenderItems with mOpaqueRitems: the i-th item of the list
\* is drawn in a frame on frame resource cur.
DrawOpaqueRitem(cur, i) ==
    BindTables(cur, mAllRitems[mOpaqueRitems[i]].ObjCBIndex)

BuildNext ==
    \/ \E w \in Worlds : CreateRenderItem(w)
    \/ FillOpaqueRitems
    \/ BuildFrameResources
    \/ BuildDescriptorHeaps
    \/ BuildObjCbv
    \/ BuildPassCbv
    \/ \E cur \in FrameIndices, i \in DOMAIN mOpaqueRitems :
          DrawOpaqueRitem(cur, i)

BuildSpec == BuildInit /\ [][BuildNext]_vars

(* ----------------------- scene construction properties ----------------- *)

\* The ObjCBIndex values of the render items built so far.
BuiltIndices == {mAllRitems[i].ObjCBIndex : i \in DOMAIN mAllRitems}

\* C29: the render items have pairwise distinct ObjCBIndex values, handed
\* out in creation order, which are exactly 0 .. count - 1; none keeps the
\* default index.
C29_IndicesDistinctAndDense ==
    /\ \A i \in DOMAIN mAllRitems : mAllRitems[i].ObjCBIndex = i - 1
    /\ \A i, j \in DOMAIN mAllRitems :
          i # j => mAllRitems[i].ObjCBIndex # mAllRitems[j].ObjCBIndex
    /\ BuiltIndices = 0 .. (Len(mAllRitems) - 1)
    /\ DefaultObjCBIndex \notin BuiltIndices
    /\ objIndex = Len(mAllRitems)

\* C29 witness: BuildRenderItems has finished with several render items of
\* different transforms.
C29_Witness ==
    /\ bpc = "Built"
    /\ Len(mAllRitems) = MaxRitems
    /\ mAllRitems[1].World # mAllRitems[MaxRitems].World

\* C30: the element count of each frame resource's object table equals the
\* count the descriptor heap and the binding stride are computed from, so
\* every index UpdateObjectCBs writes and every index DrawRenderItems binds
\* is inside the table of the current frame resource.
C30_CountsAgree ==
    /\ bpc # "BuildRenderItems" => Len(mOpaqueRitems) = Len(mAllRitems)
    /\ bpc = "Built" =>
          /\ frObjectCount = objCount
          /\ frObjectCount = Len(mAllRitems)
          /\ \A i \in DOMAIN mAllRitems :
                mAllRitems[i].ObjCBIndex \in 0 .. (frObjectCount - 1)
          /\ \A i \in DOMAIN mOpaqueRitems :
                mAllRitems[mOpaqueRitems[i]].ObjCBIndex
                    \in 0 .. (frObjectCount - 1)
          /\ bound # <<>> =>
                /\ bound.item \in 0 .. (frObjectCount - 1)
                /\ bound.obj \in (bound.cur * frObjectCount) ..
                                 (bound.cur * frObjectCount + frObjectCount - 1)

\* C30 witness: the heap is built for several items and a frame on the last
\* frame resource has drawn the last item.
C30_Witness ==
    /\ bpc = "Built"
    /\ hpc = "Built"
    /\ frObjectCount >= 2
    /\ bound # <<>>
    /\ bound.cur = gNumFrameResources - 1
    /\ bound.item = frObjectCount - 1

====
